---- MODULE Spec2Model ----
(***************************************************************************)
(* Model of AirQuality.py.py: a script that loads a CSV of air-quality     *)
(* readings, cleans it, pivots it to one row per station and time,         *)
(* derives month / hour / pm25_high / pm25_cat, renders seven charts,      *)
(* prints one percentage and defines the helper plot_trend.                *)
(*                                                                         *)
(* Nullable cells are sequences: <<>> is NaN / NaT, <<v>> a present value. *)
(* A numeric cell of the pivoted table is a reduced fraction <<num, den>>  *)
(* (the mean of integer readings), so that means are exact.                *)
(***************************************************************************)
EXTENDS Integers, Sequences, FiniteSets, TLC

VARIABLES csv, pc, err, data, pivot, charts, out, trend

vars == <<csv, pc, err, data, pivot, charts, out, trend>>

\* ------------------------------------------------------------ bounds
\* Longest free part of the input file (Spec).
MaxRows == 3
\* Most station-times of the cleaned table SpecReshape starts from.
MaxSnap == 4

\* ------------------------------------------------- program constants
\* pivot['PM2.5'] > 60
SafeLimit == 60
\* pd.qcut(..., q=2, ...)
NumBuckets == 2
\* pollutants = ['PM2.5', 'PM10', 'NO2', 'SO2', 'CO']
pollutants == <<"PM2.5", "PM10", "NO2", "SO2", "CO">>
\* labels=['Low', 'High']
labels == <<"Low", "High">>
\* index=[...] of pivot_table
IndexCols == <<"country", "state", "city", "station", "last_update", "latitude", "longitude">>
\* The columns the script reads from the file.
RequiredCols == {"country", "state", "city", "station", "last_update", "latitude",
                 "longitude", "pollutant_id", "pollutant_avg"}

NaN == <<>>

Range(s) == {s[i] : i \in 1..Len(s)}

\* --------------------------------------------------------- arithmetic
RECURSIVE Gcd(_, _)
Gcd(a, b) == IF b = 0 THEN a ELSE Gcd(b, a % b)

\* The fraction n/d (d > 0, n >= 0) in lowest terms.
Frac(n, d) == LET g == Gcd(n, d) IN <<n \div g, d \div g>>

FracLess(x, y) == x[1] * y[2] < y[1] * x[2]
FracLeq(x, y) == x[1] * y[2] <= y[1] * x[2]

RECURSIVE SumSeq(_)
SumSeq(s) == IF s = <<>> THEN 0 ELSE Head(s) + SumSeq(Tail(s))

\* Series.mean() / groupby mean of integer readings: NaN for no reading.
MeanOf(s) == IF s = <<>> THEN NaN ELSE Frac(SumSeq(s), Len(s))

\* ------------------------------------------------------- timestamps
\* pd.to_datetime(text, errors='coerce'): the timestamp a well-formed text
\* denotes, NaT for any other text.
ToDatetime(text) ==
    CASE text = "01-03-2025 09:00:00" -> <<[year |-> 2025, month |-> 3, day |-> 1, hour |-> 9]>>
      [] text = "01-03-2025 17:00:00" -> <<[year |-> 2025, month |-> 3, day |-> 1, hour |-> 17]>>
      [] text = "02-03-2025 09:00:00" -> <<[year |-> 2025, month |-> 3, day |-> 2, hour |-> 9]>>
      [] text = "03-03-2025 09:00:00" -> <<[year |-> 2025, month |-> 3, day |-> 3, hour |-> 9]>>
      [] text = "04-03-2025 09:00:00" -> <<[year |-> 2025, month |-> 3, day |-> 4, hour |-> 9]>>
      [] text = "05-03-2025 09:00:00" -> <<[year |-> 2025, month |-> 3, day |-> 5, hour |-> 9]>>
      [] OTHER -> NaN

\* ------------------------------------------------------------ tables
\* The stations of the inputs: the fields a station fixes.
Stations ==
    { [country |-> "India", state |-> "Delhi", city |-> "Delhi", station |-> "ITO",
       latitude |-> 28, longitude |-> 77],
      [country |-> "India", state |-> "Maharashtra", city |-> "Pune", station |-> "Katraj",
       latitude |-> 18, longitude |-> 73] }

\* One line of the file: last_update is still text, pollutant_avg is <<>> or <<n>>.
Reading(st, when, pid, avg) ==
    [country |-> st.country, state |-> st.state, city |-> st.city, station |-> st.station,
     latitude |-> st.latitude, longitude |-> st.longitude,
     last_update |-> when, pollutant_id |-> pid, pollutant_avg |-> avg]

\* Line 12: the row with its last_update parsed.
ParseRow(r) == [r EXCEPT !.last_update = ToDatetime(r.last_update)]

ParseDates(rows) == [i \in 1..Len(rows) |-> ParseRow(rows[i])]

\* Variant: dropna() without subset, which drops a row for any missing cell.
DropNaAnyColumn(rows) ==
    SelectSeq(rows, LAMBDA r : r.pollutant_avg # NaN /\ r.last_update # NaN)

\* Line 13: the rows whose pollutant_avg is present, in order.
DropNa(rows) == SelectSeq(rows, LAMBDA r : r.pollutant_avg # NaN)

\* ------------------------------------------------------------- pivot
\* Alphabetical order of the strings that occur in the index columns.
StrOrder == <<"Delhi", "ITO", "India", "Katraj", "Maharashtra", "Pune">>
StrRank(s) == CHOOSE i \in 1..Len(StrOrder) : StrOrder[i] = s

\* A row's value in each index column, in IndexCols order; strings by their rank
\* and the timestamp as its fields, so that tuples compare field by field.
KeyOf(r) ==
    <<StrRank(r.country), StrRank(r.state), StrRank(r.city), StrRank(r.station),
      r.last_update[1].year, r.last_update[1].month, r.last_update[1].day,
      r.last_update[1].hour, r.latitude, r.longitude>>

RECURSIVE LexLess(_, _)
LexLess(a, b) ==
    /\ a # <<>>
    /\ \/ Head(a) < Head(b)
       \/ Head(a) = Head(b) /\ LexLess(Tail(a), Tail(b))

\* groupby(keys) drops every row with a missing value in a key column
\* (pivot_table's dropna=True default): here last_update after coercion.
HasKey(r) == r.last_update # NaN

RECURSIVE SortKeys(_)
SortKeys(ks) ==
    IF ks = {} THEN <<>>
    ELSE LET m == CHOOSE k \in ks : \A o \in ks : o = k \/ LexLess(k, o)
         IN <<m>> \o SortKeys(ks \ {m})

\* pollutant_avg of the rows of one group and one pollutant_id, in row order.
GroupValues(rows, k, pid) ==
    LET sel == SelectSeq(rows, LAMBDA r : HasKey(r) /\ KeyOf(r) = k /\ r.pollutant_id = pid)
    IN [i \in 1..Len(sel) |-> sel[i].pollutant_avg[1]]

\* Variant: aggfunc='last'.
AggregateLast(vals) == IF vals = <<>> THEN NaN ELSE Frac(vals[Len(vals)], 1)

\* aggfunc of pivot_table: its default, the mean.
Aggregate(vals) == MeanOf(vals)

Snapshot(rows, k) ==
    LET r == CHOOSE r \in Range(rows) : HasKey(r) /\ KeyOf(r) = k
    IN [country |-> r.country, state |-> r.state, city |-> r.city, station |-> r.station,
        last_update |-> r.last_update, latitude |-> r.latitude, longitude |-> r.longitude,
        val |-> [p \in Range(pollutants) |-> Aggregate(GroupValues(rows, k, p))],
        month |-> NaN, hour |-> NaN, pm25_high |-> FALSE, pm25_cat |-> NaN]

\* Lines 16-18: one row per group in key order, one column per pollutant_id seen.
PivotTable(rows) ==
    LET kept == SelectSeq(rows, HasKey)
        ks == SortKeys({KeyOf(r) : r \in Range(kept)})
    IN [cols |-> Range(IndexCols) \cup {r.pollutant_id : r \in Range(kept)},
        rows |-> [i \in 1..Len(ks) |-> Snapshot(kept, ks[i])]]

NoTable == [cols |-> {}, rows |-> <<>>]

\* ---------------------------------------------------- derived columns
\* Line 19 / 20: .dt.month and .dt.hour, NaN for NaT.
MonthOf(ts) == IF ts = NaN THEN NaN ELSE <<ts[1].month>>
HourOf(ts) == IF ts = NaN THEN NaN ELSE <<ts[1].hour>>

\* Variant: >= in place of >.
Pm25HighInclusive(cell) == cell # NaN /\ cell[1] >= SafeLimit * cell[2]

\* Line 21: cell > 60, False for NaN.
Pm25High(cell) == cell # NaN /\ cell[1] > SafeLimit * cell[2]

RECURSIVE SortFracs(_)
SortFracs(s) ==
    IF s = <<>> THEN <<>>
    ELSE LET i == CHOOSE i \in 1..Len(s) : \A j \in 1..Len(s) : FracLeq(s[i], s[j])
         IN <<s[i]>> \o SortFracs(SubSeq(s, 1, i - 1) \o SubSeq(s, i + 1, Len(s)))

\* The k/NumBuckets quantile of ascending present values, by linear interpolation
\* between the two neighbours of position (M-1)*k/NumBuckets.
Quantile(sorted, k) ==
    LET pos == (Len(sorted) - 1) * k
        lo == sorted[pos \div NumBuckets + 1]
        f == pos % NumBuckets
        hi == IF f = 0 THEN lo ELSE sorted[pos \div NumBuckets + 2]
    IN Frac(lo[1] * hi[2] * (NumBuckets - f) + hi[1] * lo[2] * f, lo[2] * hi[2] * NumBuckets)

\* The bin edges qcut computes: quantiles 0, 1/q, ..., 1 of the present values.
QcutBins(x) ==
    LET sorted == SortFracs(SelectSeq(x, LAMBDA c : c # NaN))
    IN IF sorted = <<>> THEN <<>> ELSE [k \in 1..(NumBuckets + 1) |-> Quantile(sorted, k - 1)]

\* Variant: an error only for fewer than two different values.
QcutRaisesOnConstant(x) ==
    Cardinality({x[i] : i \in 1..Len(x)} \ {NaN}) < 2

\* duplicates='raise': qcut raises ValueError unless the edges are all different.
QcutRaises(x) ==
    LET bins == QcutBins(x)
    IN bins = <<>> \/ \E i \in 1..(Len(bins) - 1) : ~FracLess(bins[i], bins[i + 1])

\* Variant: right=False, buckets closed on the left.
QcutLabelLeftClosed(bins, cell) ==
    IF cell = NaN THEN NaN
    ELSE <<labels[CHOOSE j \in 1..NumBuckets :
                      /\ FracLeq(bins[j], cell)
                      /\ (j = NumBuckets \/ FracLess(cell, bins[j + 1]))]>>

\* The label of one cell: bucket j holds (bins[j], bins[j+1]], the first bucket
\* its left edge too; NaN has no label.
QcutLabel(bins, cell) ==
    IF cell = NaN THEN NaN
    ELSE <<labels[CHOOSE j \in 1..NumBuckets :
                      /\ FracLeq(cell, bins[j + 1])
                      /\ (j = 1 \/ FracLess(bins[j], cell))]>>

\* Line 22: the pm25_cat column.
Qcut(x) == LET bins == QcutBins(x) IN [i \in 1..Len(x) |-> QcutLabel(bins, x[i])]

PM25Column(t) == [i \in 1..Len(t.rows) |-> t.rows[i].val["PM2.5"]]

\* ------------------------------------------------------------- report
\* f"{x:.2f}" of the fraction x: the nearest hundredth, a tie to the even one.
Hundredths(x) ==
    LET q == (100 * x[1]) \div x[2]
        r == (100 * x[1]) % x[2]
    IN IF 2 * r > x[2] \/ (2 * r = x[2] /\ q % 2 = 1) THEN q + 1 ELSE q

Format2f(x) ==
    IF x = NaN THEN "nan"
    ELSE LET h == Hundredths(x)
         IN ToString(h \div 100) \o "." \o ToString((h % 100) \div 10) \o ToString(h % 10)

\* Variant: the share among the snapshots that have a PM2.5 value.
UnsafePercentOfMeasured(t) ==
    LET n == Cardinality({i \in 1..Len(t.rows) : t.rows[i].val["PM2.5"] # NaN})
        k == Cardinality({i \in 1..Len(t.rows) : t.rows[i].pm25_high})
    IN IF n = 0 THEN NaN ELSE Frac(100 * k, n)

\* Line 89: pivot['pm25_high'].mean() * 100, NaN for a table without rows.
UnsafePercent(t) ==
    LET n == Len(t.rows)
        k == Cardinality({i \in 1..n : t.rows[i].pm25_high})
    IN IF n = 0 THEN NaN ELSE Frac(100 * k, n)

\* Line 90 (the unit is written without its non-ASCII letters).
ReportLine(t) ==
    "Percentage of PM2.5 values above safe limit (60 ug/m3): " \o Format2f(UnsafePercent(t)) \o "%"

\* --------------------------------------------------------- plot_trend
\* The columns whose mean pandas can take.
NumericCols == Range(pollutants) \cup {"latitude", "longitude", "month", "hour", "pm25_high"}

\* A row's cell in a numeric column, as a fraction or NaN.
NumCell(r, col) ==
    CASE col \in Range(pollutants) -> r.val[col]
      [] col = "latitude" -> <<r.latitude, 1>>
      [] col = "longitude" -> <<r.longitude, 1>>
      [] col = "month" -> IF r.month = NaN THEN NaN ELSE <<r.month[1], 1>>
      [] col = "hour" -> IF r.hour = NaN THEN NaN ELSE <<r.hour[1], 1>>
      [] col = "pm25_high" -> <<IF r.pm25_high THEN 1 ELSE 0, 1>>

RECURSIVE FracSum(_)
FracSum(s) ==
    IF s = <<>> THEN <<0, 1>>
    ELSE LET t == FracSum(Tail(s))
         IN Frac(Head(s)[1] * t[2] + t[1] * Head(s)[2], Head(s)[2] * t[2])

\* mean() of one bin: over the present cells, NaN when there is none.
FracMean(cells) ==
    LET present == SelectSeq(cells, LAMBDA c : c # NaN)
        total == FracSum(present)
    IN IF present = <<>> THEN NaN ELSE Frac(total[1], total[2] * Len(present))

\* Line 98: resample('D', on='last_update')[col].mean(): one bin per calendar day
\* from the first to the last day of the rows, in date order, empty days
\* included. The timestamps of the inputs lie in one month, so the days between
\* two dates are the day numbers between them.
DailyAvg(rows, col) ==
    LET days == {rows[i].last_update[1].day : i \in 1..Len(rows)}
        first == CHOOSE d \in days : \A e \in days : d <= e
        last == CHOOSE d \in days : \A e \in days : e <= d
        any == rows[1].last_update[1]
    IN [n \in 1..(last - first + 1) |->
           LET in_bin == SelectSeq(rows, LAMBDA r : r.last_update[1].day = first + n - 1)
           IN [year |-> any.year, month |-> any.month, day |-> first + n - 1,
               mean |-> FracMean([i \in 1..Len(in_bin) |-> NumCell(in_bin[i], col)])]]

\* Variant: the guard without its test of the column name.
NotAvailableCityOnly(df, city, pollutant) ==
    SelectSeq(df.rows, LAMBDA r : r.city = city) = <<>>

\* Line 95: the guard of plot_trend.
NotAvailable(df, city, pollutant) ==
    SelectSeq(df.rows, LAMBDA r : r.city = city) = <<>> \/ pollutant \notin df.cols

\* Lines 93-104: what one call prints, renders and raises. The mean of a column
\* that is not numeric (state, pm25_cat, ...) raises.
PlotTrendResult(df, city, pollutant) ==
    LET city_data == SelectSeq(df.rows, LAMBDA r : r.city = city)
    IN IF NotAvailable(df, city, pollutant)
       THEN [call |-> <<city, pollutant>>, printed |-> <<"Data not available.">>,
             shown |-> <<>>, raised |-> FALSE]
       ELSE IF pollutant \notin NumericCols
       THEN [call |-> <<city, pollutant>>, printed |-> <<>>, shown |-> <<>>, raised |-> TRUE]
       ELSE [call |-> <<city, pollutant>>, printed |-> <<>>,
             shown |-> <<[title |-> pollutant \o " Daily Trend in " \o city,
                          series |-> DailyAvg(city_data, pollutant)]>>,
             raised |-> FALSE]

NoCall == [call |-> <<>>, printed |-> <<>>, shown |-> <<>>, raised |-> FALSE]

NoError == [at |-> "none", type |-> "none"]

\* The arguments plot_trend is called with.
TrendCities == {"Delhi", "Pune", "Atlantis"}
TrendColumns == {"PM2.5", "CO", "O3", "hour", "state"}

\* ------------------------------------------------------------ actions
\* The statements of the script in the order they run.
StageOrder ==
    <<"load", "parse", "dropna", "pivot", "month", "hour", "pm25_high", "pm25_cat",
      "corr", "scatter", "box_cat", "box_state", "heat_city", "bar_city", "bar_station",
      "report", "done">>
StageIndex(p) == CHOOSE i \in 1..Len(StageOrder) : StageOrder[i] = p

\* Variant: the exception is swallowed and the script goes on with the next stage.
FailAndGoOn(e) ==
    /\ pc' = StageOrder[StageIndex(pc) + 1]
    /\ err' = [at |-> pc, type |-> e]

\* An uncaught exception ends the script: nothing after the raising line runs.
Fail(e) ==
    /\ pc' = "failed"
    /\ err' = [at |-> pc, type |-> e]

\* Line 11.
Load ==
    /\ pc = "load"
    /\ IF csv.exists
       THEN data' = csv.rows /\ pc' = "parse" /\ err' = err
       ELSE Fail("FileNotFoundError") /\ data' = data
    /\ UNCHANGED <<csv, pivot, charts, out, trend>>

\* Line 12.
Parse ==
    /\ pc = "parse"
    /\ IF "last_update" \in csv.header
       THEN data' = ParseDates(data) /\ pc' = "dropna" /\ err' = err
       ELSE Fail("KeyError") /\ data' = data
    /\ UNCHANGED <<csv, pivot, charts, out, trend>>

\* Line 13.
Clean ==
    /\ pc = "dropna"
    /\ IF "pollutant_avg" \in csv.header
       THEN data' = DropNa(data) /\ pc' = "pivot" /\ err' = err
       ELSE Fail("KeyError") /\ data' = data
    /\ UNCHANGED <<csv, pivot, charts, out, trend>>

\* Lines 16-18.
Pivot ==
    /\ pc = "pivot"
    /\ IF Range(IndexCols) \cup {"pollutant_id"} \subseteq csv.header
       THEN pivot' = PivotTable(data) /\ pc' = "month" /\ err' = err
       ELSE Fail("KeyError") /\ pivot' = pivot
    /\ UNCHANGED <<csv, data, charts, out, trend>>

\* Line 19.
DeriveMonth ==
    /\ pc = "month"
    /\ pivot' = [cols |-> pivot.cols \cup {"month"},
                 rows |-> [i \in 1..Len(pivot.rows) |->
                     [pivot.rows[i] EXCEPT !.month = MonthOf(pivot.rows[i].last_update)]]]
    /\ pc' = "hour"
    /\ UNCHANGED <<csv, err, data, charts, out, trend>>

\* Line 20.
DeriveHour ==
    /\ pc = "hour"
    /\ pivot' = [cols |-> pivot.cols \cup {"hour"},
                 rows |-> [i \in 1..Len(pivot.rows) |->
                     [pivot.rows[i] EXCEPT !.hour = HourOf(pivot.rows[i].last_update)]]]
    /\ pc' = "pm25_high"
    /\ UNCHANGED <<csv, err, data, charts, out, trend>>

\* Line 21: KeyError when no reading of PM2.5 made it into the table.
DeriveHigh ==
    /\ pc = "pm25_high"
    /\ IF "PM2.5" \in pivot.cols
       THEN /\ pivot' = [cols |-> pivot.cols \cup {"pm25_high"},
                         rows |-> [i \in 1..Len(pivot.rows) |->
                             [pivot.rows[i] EXCEPT
                                 !.pm25_high = Pm25High(pivot.rows[i].val["PM2.5"])]]]
            /\ pc' = "pm25_cat" /\ err' = err
       ELSE Fail("KeyError") /\ pivot' = pivot
    /\ UNCHANGED <<csv, data, charts, out, trend>>

\* Line 22: ValueError when qcut cannot form its buckets.
DeriveCat ==
    /\ pc = "pm25_cat"
    /\ IF ~QcutRaises(PM25Column(pivot))
       THEN /\ pivot' = [cols |-> pivot.cols \cup {"pm25_cat"},
                         rows |-> LET cat == Qcut(PM25Column(pivot))
                                  IN [i \in 1..Len(pivot.rows) |->
                                         [pivot.rows[i] EXCEPT !.pm25_cat = cat[i]]]]
            /\ pc' = "corr" /\ err' = err
       ELSE Fail("ValueError") /\ pivot' = pivot
    /\ UNCHANGED <<csv, data, charts, out, trend>>

\* One chart: the figure is shown and the script goes on to the next stage.
Show(stage, title, nextStage) ==
    /\ pc = stage
    /\ charts' = Append(charts, title)
    /\ pc' = nextStage
    /\ UNCHANGED <<csv, err, data, pivot, out, trend>>

\* Lines 26-29: pivot[pollutants] raises KeyError when one of them is no column.
CorrHeatmap ==
    /\ pc = "corr"
    /\ IF Range(pollutants) \subseteq pivot.cols
       THEN charts' = Append(charts, "Correlation between Pollutants")
            /\ pc' = "scatter" /\ err' = err
       ELSE Fail("KeyError") /\ charts' = charts
    /\ UNCHANGED <<csv, data, pivot, out, trend>>

\* Lines 32-35.
Scatter == Show("scatter", "PM10 vs PM2.5", "box_cat")
\* Lines 38-42.
BoxCat == Show("box_cat", "PM2.5 Levels by Category", "box_state")
\* Lines 45-52.
BoxState == Show("box_state", "PM2.5 in Different States (Top 8)", "heat_city")
\* Lines 55-61.
HeatCity == Show("heat_city", "Avg Pollutant Levels in Top 10 Polluted Cities", "bar_city")
\* Lines 64-74.
BarCity == Show("bar_city", "Pollutant Contribution in Top 5 Polluted Cities", "bar_station")
\* Lines 78-86.
BarStation ==
    Show("bar_station", "Top 10 Most Polluted Monitoring Stations (PM2.5)", "report")

\* Lines 89-90; the def of plot_trend follows and the script ends.
Report ==
    /\ pc = "report"
    /\ out' = Append(out, ReportLine(pivot))
    /\ pc' = "done"
    /\ UNCHANGED <<csv, err, data, pivot, charts, trend>>

\* A call plot_trend(pivot, city, pollutant) once the script has run (line 106).
\* The call reads the table and changes nothing the script reads, so one call
\* per run shows what every call does.
PlotTrend ==
    /\ pc = "done"
    /\ trend = NoCall
    /\ \E city \in TrendCities, pollutant \in TrendColumns :
           trend' = PlotTrendResult(pivot, city, pollutant)
    /\ UNCHANGED <<csv, pc, err, data, pivot, charts, out>>

Reshape == Pivot \/ DeriveMonth \/ DeriveHour \/ DeriveHigh \/ DeriveCat
Visualize == CorrHeatmap \/ Scatter \/ BoxCat \/ BoxState \/ HeatCity \/ BarCity \/ BarStation

Next == Load \/ Parse \/ Clean \/ Reshape \/ Visualize \/ Report \/ PlotTrend

NextReshape == Reshape \/ Visualize \/ Report \/ PlotTrend

\* ------------------------------------------------------------- inputs
SeqsUpTo(S, n) == UNION {[1..k -> S] : k \in 0..n}

WellFormed == "01-03-2025 09:00:00"

\* Readings of the other four pollutants at one station and time.
BaseRows ==
    LET st == CHOOSE s \in Stations : s.station = "ITO"
    IN <<Reading(st, WellFormed, "PM10", <<80>>), Reading(st, WellFormed, "NO2", <<20>>),
         Reading(st, WellFormed, "SO2", <<10>>), Reading(st, WellFormed, "CO", <<1>>)>>

\* The free lines of the file: PM2.5 readings, with or without a value and a
\* well-formed timestamp.
FreeRows ==
    {Reading(st, when, "PM2.5", avg) :
        st \in Stations, when \in {WellFormed, "n/a"}, avg \in {NaN, <<50>>, <<70>>}}

Files ==
    {[exists |-> FALSE, header |-> RequiredCols, rows |-> <<>>]}
    \cup {[exists |-> TRUE, header |-> RequiredCols \ {c}, rows |-> <<>>] :
             c \in {"last_update", "pollutant_avg", "pollutant_id"}}
    \cup {[exists |-> TRUE, header |-> RequiredCols, rows |-> base \o free] :
             base \in {<<>>, BaseRows}, free \in SeqsUpTo(FreeRows, MaxRows)}

Init ==
    /\ csv \in Files
    /\ pc = "load"
    /\ err = NoError
    /\ data = <<>>
    /\ pivot = NoTable
    /\ charts = <<>>
    /\ out = <<>>
    /\ trend = NoCall

Spec == Init /\ [][Next]_vars

\* Station-time i of the tables SpecReshape starts from: the stations in turn,
\* one day after the other.
DayText == <<"01-03-2025 09:00:00", "02-03-2025 09:00:00", "03-03-2025 09:00:00",
             "04-03-2025 09:00:00", "05-03-2025 09:00:00">>
StationAt(i) ==
    CHOOSE s \in Stations : s.station = (IF i % 2 = 1 THEN "ITO" ELSE "Katraj")

\* What was measured at a station-time: PM2.5 with some value, or PM10 only.
Measured == {<<"PM2.5", v>> : v \in {10, 30, 70, 90}} \cup {<<"PM10", 20>>}

ReshapeFiles ==
    {[exists |-> TRUE, header |-> RequiredCols,
      rows |-> [i \in 1..Len(m) |-> Reading(StationAt(i), DayText[i], m[i][1], <<m[i][2]>>)]
               \o BaseRows] :
        m \in SeqsUpTo(Measured, MaxSnap)}

\* The state after line 13 for a file in which every station-time has one reading
\* of PM2.5 or PM10, and the first one readings of the other pollutants too.
InitReshape ==
    /\ csv \in ReshapeFiles
    /\ pc = "pivot"
    /\ err = NoError
    /\ data = DropNa(ParseDates(csv.rows))
    /\ pivot = NoTable
    /\ charts = <<>>
    /\ out = <<>>
    /\ trend = NoCall

SpecReshape == InitReshape /\ [][NextReshape]_vars

\* ------------------------------------------------------------- claims
\* The stages that have run or raised so far.
Reached(stage) ==
    IF pc = "failed" THEN StageIndex(err.at) >= StageIndex(stage)
    ELSE StageIndex(pc) >= StageIndex(stage)
Passed(stage) ==
    IF pc = "failed" THEN StageIndex(err.at) > StageIndex(stage)
    ELSE StageIndex(pc) > StageIndex(stage)

\* The index tuple of a cleaned reading, a missing last_update included.
IndexTuple(r) ==
    <<r.country, r.state, r.city, r.station, r.last_update, r.latitude, r.longitude>>

SameGroup(r, s) == IndexTuple(r) = IndexTuple(s)

\* C1: the pivot has as many rows as the cleaned readings have distinct
\* (country, state, city, station, last_update, latitude, longitude) tuples,
\* the tuples whose last_update is null included.
C1_RowsEqualDistinctTuples ==
    Passed("pivot") => Len(pivot.rows) = Cardinality({IndexTuple(r) : r \in Range(data)})

\* C2: after cleaning, the table holds exactly the readings of the file whose
\* pollutant_avg is present, in file order, each with every value it had (its
\* last_update as line 12 parsed it, null when the text was malformed).
C2_CleanerKeepsExactlyNonNull ==
    Passed("dropna") =>
        LET raw == csv.rows
            idx == {i \in 1..Len(raw) : raw[i].pollutant_avg # NaN}
        IN /\ \A k \in 1..Len(data) : data[k].pollutant_avg # NaN
           /\ Len(data) = Cardinality(idx)
           /\ \A i \in idx :
                  LET k == Cardinality({j \in idx : j <= i})
                  IN data[k] = [raw[i] EXCEPT !.last_update = ToDatetime(raw[i].last_update)]

\* C2 witness: a reading without value was dropped and a reading whose timestamp
\* failed to parse was retained.
C2_Witness ==
    /\ Passed("dropna")
    /\ Len(data) < Len(csv.rows)
    /\ \E k \in 1..Len(data) : data[k].last_update = NaN

\* C7: when every line of the file fails timestamp parsing, the reshaper does
\* not raise, it produces one snapshot per index tuple, and month and hour are
\* null in every snapshot.
C7_AllUnparsedStillReshapes ==
    (/\ csv.rows # <<>>
     /\ \A i \in 1..Len(csv.rows) :
            /\ ToDatetime(csv.rows[i].last_update) = NaN
            /\ csv.rows[i].pollutant_avg # NaN)
    => /\ ~(pc = "failed" /\ err.at \in {"pivot", "month", "hour", "pm25_high"})
       /\ Passed("pivot") =>
              Len(pivot.rows) = Cardinality({IndexTuple(r) : r \in Range(data)})
       /\ Passed("hour") =>
              \A i \in 1..Len(pivot.rows) :
                  pivot.rows[i].month = NaN /\ pivot.rows[i].hour = NaN

\* The titles of the seven charts in script order.
ChartOrder ==
    <<"Correlation between Pollutants", "PM10 vs PM2.5", "PM2.5 Levels by Category",
      "PM2.5 in Different States (Top 8)", "Avg Pollutant Levels in Top 10 Polluted Cities",
      "Pollutant Contribution in Top 5 Polluted Cities",
      "Top 10 Most Polluted Monitoring Stations (PM2.5)">>

\* The number of stages from the first chart on that have completed.
ChartsDue ==
    LET done == (IF pc = "failed" THEN StageIndex(err.at) ELSE StageIndex(pc))
                - StageIndex("corr")
    IN IF done < 0 THEN 0 ELSE IF done > Len(ChartOrder) THEN Len(ChartOrder) ELSE done

C8_State ==
    /\ charts = SubSeq(ChartOrder, 1, ChartsDue)
    /\ data # <<>> => Passed("load")
    /\ pivot # NoTable <=> Passed("pivot")
    /\ out # <<>> <=> pc = "done"
    /\ pc = "done" => Len(out) = 1 /\ charts = ChartOrder /\ err = NoError
    /\ pc = "failed" <=> err # NoError

C8_Step ==
    /\ pc # "failed"
    /\ pc' # pc => pc' = "failed" \/ pc' = StageOrder[StageIndex(pc) + 1]
    /\ pc' = pc => pc = "done" /\ charts' = charts /\ out' = out

\* C8: the stages run in script order (loader, cleaner, reshaper, the seven
\* charts in their order, the percentage line); a stage that raises ends the
\* run, so no later chart is rendered and the line is printed only when every
\* earlier stage succeeded.
C8_StrictOrderAndAbort == []C8_State /\ [][C8_Step]_vars

\* C8 witness: a chart stage raised after the reshaper succeeded, and nothing
\* was rendered or printed after it.
C8_Witness ==
    /\ pc = "failed"
    /\ err.at = "corr"
    /\ "pm25_cat" \in pivot.cols
    /\ charts = <<>>
    /\ out = <<>>

\* The readings of a snapshot's group for one pollutant, in input order.
ReadingsOf(s, pid) ==
    LET sel == SelectSeq(data, LAMBDA r : SameGroup(r, s) /\ r.pollutant_id = pid)
    IN [i \in 1..Len(sel) |-> sel[i].pollutant_avg[1]]

\* C10 as claimed: several readings of one pollutant in one group collapse into
\* the last of them in input order.
C10_LastWriteWins ==
    Passed("pivot") =>
        \A i \in 1..Len(pivot.rows) : \A pid \in Range(pollutants) :
            LET vals == ReadingsOf(pivot.rows[i], pid)
            IN Len(vals) >= 2 => pivot.rows[i].val[pid] = <<vals[Len(vals)], 1>>

\* C10 as amended: several readings of one pollutant in one group collapse into
\* one value, their arithmetic mean.
C10_MeanOfDuplicates ==
    Passed("pivot") =>
        \A i \in 1..Len(pivot.rows) : \A pid \in Range(pollutants) :
            LET vals == ReadingsOf(pivot.rows[i], pid)
                cell == pivot.rows[i].val[pid]
            IN Len(vals) >= 2 =>
                   /\ cell # NaN
                   /\ cell[1] * Len(vals) = SumSeq(vals) * cell[2]

\* C10 witness: a group with two different readings of one pollutant was pivoted.
C10_Witness ==
    /\ Passed("pivot")
    /\ \E i \in 1..Len(pivot.rows) : \E pid \in Range(pollutants) :
           LET vals == ReadingsOf(pivot.rows[i], pid)
           IN Len(vals) >= 2 /\ vals[1] # vals[Len(vals)]

\* The PM2.5 cells of the table that are present.
Measured25 == {i \in 1..Len(pivot.rows) : pivot.rows[i].val["PM2.5"] # NaN}
Cell25(i) == pivot.rows[i].val["PM2.5"]

\* C3: pm25_high is true exactly for the snapshots whose PM2.5 is strictly
\* greater than 60; a snapshot with PM2.5 = 60 has pm25_high false.
C3_HighIffAboveSixty ==
    "pm25_high" \in pivot.cols =>
        \A i \in 1..Len(pivot.rows) :
            /\ pivot.rows[i].pm25_high <=> (i \in Measured25 /\ Cell25(i)[1] > 60 * Cell25(i)[2])
            /\ (i \in Measured25 /\ Cell25(i) = <<60, 1>>) => ~pivot.rows[i].pm25_high

\* C3 witness: the flag was derived for a table with a snapshot at exactly 60
\* and a snapshot above it.
C3_Witness ==
    /\ "pm25_high" \in pivot.cols
    /\ \E i \in Measured25 : Cell25(i) = <<60, 1>> /\ ~pivot.rows[i].pm25_high
    /\ \E i \in Measured25 : pivot.rows[i].pm25_high

ReportPrefix == "Percentage of PM2.5 values above safe limit (60 ug/m3): "

\* C4: the printed percentage is 100 * (snapshots with pm25_high) / (all
\* snapshots of the table, those without PM2.5 included), written with exactly
\* two decimals: the hundredth nearest to it. Four snapshots of which two are
\* high print 50.00%.
C4_PercentOverAllSnapshots ==
    out # <<>> =>
        LET n == Len(pivot.rows)
            k == Cardinality({i \in 1..n : pivot.rows[i].pm25_high})
        IN /\ n > 0
           /\ \E h \in {(10000 * k) \div n, (10000 * k) \div n + 1} :
                  /\ 2 * h * n - 20000 * k <= n
                  /\ 20000 * k - 2 * h * n <= n
                  /\ out[1] = ReportPrefix \o ToString(h \div 100) \o "."
                                  \o ToString((h % 100) \div 10) \o ToString(h % 10) \o "%"
           /\ (n = 4 /\ k = 2) => out[1] = ReportPrefix \o "50.00%"

\* C4 witness: the line was printed for the table with PM2.5 = 10, 70, 90, 30.
C4_Witness ==
    /\ out = <<ReportPrefix \o "50.00%">>
    /\ Len(pivot.rows) = 4
    /\ Measured25 = 1..4
    /\ <<Cell25(1), Cell25(2), Cell25(3), Cell25(4)>> = <<<<10, 1>>, <<70, 1>>, <<90, 1>>, <<30, 1>>>>

\* The snapshots of one bucket.
Bucket(label) == {i \in 1..Len(pivot.rows) : pivot.rows[i].pm25_cat = <<label>>}

LessCount(i) == Cardinality({j \in Measured25 : FracLess(Cell25(j), Cell25(i))})
LeqCount(i) == Cardinality({j \in Measured25 : FracLeq(Cell25(j), Cell25(i))})

\* No ties at the median: for an odd number of values the middle one occurs
\* once, for an even number the two middle ones differ.
NoTieAtMedian ==
    LET m == Cardinality(Measured25)
    IN \E i \in Measured25 :
           /\ LeqCount(i) = (m + 1) \div 2
           /\ m % 2 = 1 => LessCount(i) = LeqCount(i) - 1

BucketsOrdered ==
    \A i \in Bucket("Low") : \A j \in Bucket("High") : FracLeq(Cell25(i), Cell25(j))

\* C5 as claimed: with N the number of snapshots of the table and no ties at the
\* median, Low holds ceil(N/2) snapshots and High floor(N/2), and no Low value
\* exceeds a High value.
C5_HalvesOfAllSnapshots ==
    ("pm25_cat" \in pivot.cols /\ NoTieAtMedian) =>
        LET n == Len(pivot.rows)
        IN /\ Cardinality(Bucket("Low")) = (n + 1) \div 2
           /\ Cardinality(Bucket("High")) = n \div 2
           /\ BucketsOrdered

\* C5 as amended: the same with N the number of snapshots whose PM2.5 is
\* present; a snapshot without PM2.5 is in neither bucket.
C5_HalvesOfMeasuredSnapshots ==
    ("pm25_cat" \in pivot.cols /\ NoTieAtMedian) =>
        LET n == Cardinality(Measured25)
        IN /\ Cardinality(Bucket("Low")) = (n + 1) \div 2
           /\ Cardinality(Bucket("High")) = n \div 2
           /\ Bucket("Low") \cup Bucket("High") = Measured25
           /\ BucketsOrdered

\* C5 witness: buckets were formed for three measured snapshots and one
\* snapshot without PM2.5.
C5_Witness ==
    /\ "pm25_cat" \in pivot.cols
    /\ NoTieAtMedian
    /\ Cardinality(Measured25) = 3
    /\ Len(pivot.rows) = 4
    /\ Cardinality(Bucket("Low")) = 2

\* The derivation of pm25_cat (with the flag it builds on) raised / completed.
CatFailed == pc = "failed" /\ err.at \in {"pm25_high", "pm25_cat"}
CatDone == "pm25_cat" \in pivot.cols

Distinct25 == Cardinality({Cell25(i) : i \in Measured25})

\* C9 as claimed: the derivation ends in an error when PM2.5 has fewer than two
\* distinct values or is null everywhere, and succeeds whenever PM2.5 has at
\* least two distinct values.
C9_ErrorIffFewerThanTwoDistinct ==
    (CatFailed \/ CatDone) =>
        /\ Distinct25 < 2 => CatFailed /\ ~CatDone
        /\ Distinct25 >= 2 => CatDone

\* The number of measured snapshots at the smallest / largest PM2.5.
AtMinimum == Cardinality({i \in Measured25 : \A j \in Measured25 : FracLeq(Cell25(i), Cell25(j))})
AtMaximum == Cardinality({i \in Measured25 : \A j \in Measured25 : FracLeq(Cell25(j), Cell25(i))})

\* C9 as amended: the derivation ends in an error exactly when PM2.5 is null
\* everywhere, or more than half of its present values equal their minimum, or
\* more than half equal their maximum (the median is then a duplicate bin edge;
\* fewer than two distinct values is the case where all do); it succeeds on
\* every other table.
C9_ErrorIffMedianOnEdge ==
    (CatFailed \/ CatDone) =>
        LET m == Cardinality(Measured25)
            onEdge == m = 0 \/ 2 * AtMinimum > m \/ 2 * AtMaximum > m
        IN /\ onEdge => CatFailed /\ ~CatDone
           /\ ~onEdge => CatDone /\ ~CatFailed
           /\ Distinct25 < 2 => onEdge

\* C9 witness: the derivation raised on a table with two distinct PM2.5 values.
C9_Witness ==
    /\ CatFailed
    /\ Distinct25 >= 2

\* The last call of plot_trend: its arguments and the snapshots of its city.
Called == trend.call # <<>>
CallCity == trend.call[1]
CallColumn == trend.call[2]
CityRows == {i \in 1..Len(pivot.rows) : pivot.rows[i].city = CallCity}
DayOf(i) == pivot.rows[i].last_update[1].day

SaidNotAvailable ==
    trend.printed = <<"Data not available.">> /\ trend.shown = <<>> /\ ~trend.raised

RECURSIVE SumCells(_)
SumCells(is) ==
    IF is = {} THEN <<0, 1>>
    ELSE LET i == CHOOSE i \in is : TRUE
             c == NumCell(pivot.rows[i], CallColumn)
             t == SumCells(is \ {i})
         IN <<c[1] * t[2] + t[1] * c[2], c[2] * t[2]>>

\* One chart whose series has one entry per calendar day from the city's first
\* to its last day, in ascending order, each the mean of that day's present
\* values (null for a day without one).
ShowedDailyMeans ==
    /\ trend.printed = <<>>
    /\ ~trend.raised
    /\ Len(trend.shown) = 1
    /\ LET series == trend.shown[1].series
           first == CHOOSE d \in {DayOf(i) : i \in CityRows} : \A i \in CityRows : d <= DayOf(i)
           last == CHOOSE d \in {DayOf(i) : i \in CityRows} : \A i \in CityRows : DayOf(i) <= d
       IN /\ Len(series) = last - first + 1
          /\ \A n \in 1..Len(series) :
                 LET here == {i \in CityRows : /\ DayOf(i) = first + n - 1
                                               /\ NumCell(pivot.rows[i], CallColumn) # NaN}
                     total == SumCells(here)
                 IN /\ series[n].day = first + n - 1
                    /\ (n > 1 => series[n - 1].day < series[n].day)
                    /\ IF here = {} THEN series[n].mean = NaN
                       ELSE /\ series[n].mean # NaN
                            /\ series[n].mean[1] * total[2] * Cardinality(here)
                                   = total[1] * series[n].mean[2]

\* C6 as claimed: the call reports "Data not available." without raising or
\* rendering whenever the city has no rows or the pollutant is not one of the
\* table's pollutant columns, and renders one chart of per-day means in date
\* order in every other case.
C6_MessageUnlessPollutantColumn ==
    Called =>
        IF CityRows = {} \/ CallColumn \notin (Range(pollutants) \cap pivot.cols)
        THEN SaidNotAvailable
        ELSE ShowedDailyMeans

\* C6 as amended: the call reports "Data not available." without raising or
\* rendering whenever the city has no rows or the pollutant names no column of
\* the table; when the city has rows and the name is a numeric column (every
\* pollutant column is one) it renders one chart of per-day means in date
\* order; when it is a column that is not numeric the call raises.
C6_MessageUnlessColumn ==
    Called =>
        IF CityRows = {} \/ CallColumn \notin pivot.cols
        THEN SaidNotAvailable
        ELSE IF CallColumn \in Range(pollutants) \cup {"hour"}
        THEN ShowedDailyMeans
        ELSE trend.raised /\ trend.shown = <<>> /\ trend.printed = <<>>

\* C6 witness: a chart of PM2.5 was rendered for a city with a day without
\* a value between two days with one.
C6_Witness ==
    /\ Called
    /\ CallColumn = "PM2.5"
    /\ ShowedDailyMeans
    /\ LET series == trend.shown[1].series
       IN /\ Len(series) >= 3
          /\ series[1].mean # NaN
          /\ series[2].mean = NaN
          /\ series[3].mean # NaN

====
